---- MODULE Spec2Model ----
(***************************************************************************)
(* A model of salt/returners/mongo_future_return.py: the "mongo" returner. *)
(*                                                                         *)
(* Python values are tagged records:                                       *)
(*   None          [t |-> "none"]                                          *)
(*   a str         [t |-> "s", s |-> "text"]                               *)
(*   a bool        [t |-> "b", b |-> TRUE]                                 *)
(*   an int        [t |-> "i", i |-> 1]                                    *)
(*   a dict        [t |-> "d", d |-> << [k |-> key, v |-> value], ... >>]  *)
(*                 the items in insertion order, the keys distinct         *)
(*   a list        [t |-> "l", l |-> << value, ... >>]                     *)
(*   a tuple       [t |-> "tu", l |-> << value, ... >>]                    *)
(*   an ObjectId   [t |-> "oid", o |-> << collection, n >>]                *)
(* A dict key is a string, written as the sequence of its symbols: each    *)
(* of the characters the module rewrites ("%", "\\", "$", ".", "-" and the *)
(* characters of the escape codes, "2", "4", "5", "c", "e") is a symbol of *)
(* its own, and a run of other characters is one symbol: a word such as    *)
(* "minion", which holds none of "%", "\\", "$", ".", "-" and starts with  *)
(* no digit, so that no rewriting of the module looks inside it.           *)
(* A key that is no string (the None of ret[None]) is << "", value >>: the *)
(* empty symbol is in no string's key.                                     *)
(***************************************************************************)
EXTENDS Integers, Sequences, FiniteSets, TLC

VARIABLES
    modern,       \* PYMONGO_VERSION > _LooseVersion("2.3"), fixed at import
    config,       \* the options _get_options resolves from the configuration
    saltReturns,  \* mdb.saltReturns: the result documents, in insertion order
    jobs,         \* mdb.jobs: the job-load documents, in insertion order
    events,       \* mdb.events: the event documents, in insertion order
    indexes,      \* the secondary indexes of the database: << collection, field >>
    last,         \* the last call: its name, arguments, outcome
    pc,           \* concurrent returner calls: each caller's position
    sdata,        \* concurrent returner calls: each caller's ret, then its sdata
    dat,          \* the argument of a _safe_copy call
    out           \* the value a _safe_copy call returned

vars == << modern, config, saltReturns, jobs, events, indexes, last, pc, sdata, dat, out >>

\* -------------------------------------------------------------- values

None == [t |-> "none"]
PyStr(x) == [t |-> "s", s |-> x]
PyBool(x) == [t |-> "b", b |-> x]
PyInt(x) == [t |-> "i", i |-> x]
PyDict(items) == [t |-> "d", d |-> items]
PyList(items) == [t |-> "l", l |-> items]
PyTuple(items) == [t |-> "tu", l |-> items]
ObjectId(coll, n) == [t |-> "oid", o |-> << coll, n >>]
Item(key, val) == [k |-> key, v |-> val]

\* isinstance(v, dict), isinstance(v, list), isinstance(v, (list, tuple))
IsDict(v) == v.t = "d"
IsList(v) == v.t = "l"
IsListOrTuple(v) == v.t \in {"l", "tu"}

\* key in d
Has(d, key) == \E i \in 1..Len(d.d) : d.d[i].k = key

\* d[key], and d.get(key): None when the key is absent
Get(d, key) ==
    IF Has(d, key)
    THEN d.d[CHOOSE i \in 1..Len(d.d) : d.d[i].k = key].v
    ELSE None

\* d[key] = val on the items of a dict: an existing key keeps its place
Put(items, key, val) ==
    IF \E i \in 1..Len(items) : items[i].k = key
    THEN [i \in 1..Len(items) |->
             IF items[i].k = key THEN Item(key, val) ELSE items[i]]
    ELSE Append(items, Item(key, val))

\* the items of a dict without one key (a projection {key: 0}, del d[key])
Without(items, key) == SelectSeq(items, LAMBDA it : it.k # key)

\* str.replace(old, new) for a one-character old
RECURSIVE replace(_, _, _)
replace(str, old, new) ==
    IF str = << >> THEN << >>
    ELSE (IF Head(str) = old THEN new ELSE << Head(str) >>)
         \o replace(Tail(str), old, new)

\* -------------------------------------------------------------- sanitizers

\* key.replace(".", "-")
dash_key(key) == replace(key, ".", << "-" >>)

RECURSIVE _remove_dots(_)
\* _remove_dots(src): dots replaced by dashes in the keys of src and of the
\* dicts nested in it as dict values; any other value is kept as it is
_remove_dots(src) ==
    LET output[n \in 0..Len(src.d)] ==
            IF n = 0 THEN << >>
            ELSE LET key == src.d[n].k
                     val == IF IsDict(src.d[n].v)
                            THEN _remove_dots(src.d[n].v)
                            ELSE src.d[n].v
                 IN  Put(output[n - 1], dash_key(key), val)
    IN  PyDict(output[Len(src.d)])

\* the key rewriting of a mutant that escapes "%" last
escape_key_percent_last(k) ==
    replace(replace(replace(replace(k, "\\", << "%", "5", "c" >>),
                            "$", << "%", "2", "4" >>),
                    ".", << "%", "2", "e" >>),
            "%", << "%", "2", "5" >>)

\* the key rewriting of a mutant that forgets "$"
escape_key_no_dollar(k) ==
    replace(replace(replace(k, "%", << "%", "2", "5" >>),
                    "\\", << "%", "5", "c" >>),
            ".", << "%", "2", "e" >>)

\* k.replace("%", "%25").replace("\\", "%5c").replace("$", "%24").replace(".", "%2e")
escape_key(k) ==
    replace(replace(replace(replace(k, "%", << "%", "2", "5" >>),
                            "\\", << "%", "5", "c" >>),
                    "$", << "%", "2", "4" >>),
            ".", << "%", "2", "e" >>)

RECURSIVE _safe_copy(_)
\* _safe_copy(dat): a dict with its keys escaped and its values copied, a list
\* or tuple as the list of its copied elements, any other value as it is
_safe_copy(v) ==
    IF IsDict(v)
    THEN LET ret[n \in 0..Len(v.d)] ==
                 IF n = 0 THEN << >>
                 ELSE Put(ret[n - 1], escape_key(v.d[n].k), _safe_copy(v.d[n].v))
         IN  PyDict(ret[Len(v.d)])
    ELSE IF IsListOrTuple(v)
    THEN PyList([i \in 1..Len(v.l) |-> _safe_copy(v.l[i])])
    ELSE v

\* -------------------------------------------------------------- _get_conn

\* bool(v) of an option's value
Truthy(v) == v \notin {None, PyStr(""), PyBool(FALSE), PyInt(0)}

\* pymongo.uri_parser.parse_uri(uri) returns; it raises InvalidURI otherwise
ValidUri(uri) == uri = PyStr("mongodb://db1/salt")

\* the four indexes of _get_conn
SaltIndexes ==
    { << "saltReturns", "minion" >>, << "saltReturns", "jid" >>,
      << "jobs", "jid" >>, << "events", "tag" >> }

\* what a call of _get_conn did: the exception raised ("" when it returned), the
\* client it built ("" when none), the database selected, whether
\* parse_uri ran, whether the indexes were asked for, and the indexes after it
ConnResult(err, conn, db, parsed, indexed, idx) ==
    [err |-> err, conn |-> conn, db |-> db, parsed |-> parsed,
     indexed |-> indexed, indexes |-> idx]

\* _get_conn of a mutant that tells uri and host apart only after connecting
_get_conn_check_late(_options, idx) ==
    LET host == _options.host
        uri == _options.uri
        mk == IF _options.indexes = PyBool(TRUE) THEN idx \cup SaltIndexes ELSE idx
    IN  IF Truthy(uri) /\ modern
        THEN IF ~ValidUri(uri)
             THEN ConnResult("InvalidURI", "", None, TRUE, FALSE, idx)
             ELSE IF Truthy(host)
             THEN ConnResult("SaltConfigurationError", "MongoClient(uri)",
                             None, TRUE, FALSE, idx)
             ELSE ConnResult("", "MongoClient(uri)", PyStr("salt"), TRUE,
                             _options.indexes = PyBool(TRUE), mk)
        ELSE IF modern
        THEN ConnResult("", "MongoClient(host, port)", _options.db, FALSE,
                        _options.indexes = PyBool(TRUE), mk)
        ELSE IF Truthy(uri)
        THEN ConnResult("SaltConfigurationError", "", None, FALSE, FALSE, idx)
        ELSE ConnResult("", "Connection(host, port)", _options.db, FALSE,
                        _options.indexes = PyBool(TRUE), mk)

\* _get_conn(ret), on the options _get_options(ret) resolved and the indexes
\* the database has
_get_conn(_options, idx) ==
    LET host == _options.host
        uri == _options.uri
        db_ == _options.db
        ix == Truthy(_options.indexes)
        mk == IF ix THEN idx \cup SaltIndexes ELSE idx
    IN  IF Truthy(uri) /\ modern
        THEN IF Truthy(uri) /\ Truthy(host)
             THEN ConnResult("SaltConfigurationError", "", None, FALSE, FALSE, idx)
             ELSE IF ~ValidUri(uri)
             THEN ConnResult("InvalidURI", "", None, TRUE, FALSE, idx)
             ELSE ConnResult("", "MongoClient(uri)", PyStr("salt"), TRUE, ix, mk)
        ELSE IF modern
        THEN ConnResult("", "MongoClient(host, port)", db_, FALSE, ix, mk)
        ELSE IF Truthy(uri)
        THEN ConnResult("SaltConfigurationError", "", None, FALSE, FALSE, idx)
        ELSE ConnResult("", "Connection(host, port)", db_, FALSE, ix, mk)

\* the configurations _get_options can resolve
Options ==
    [host : {None, PyStr("db1")},
     port : {None, PyInt(27017)},
     uri : {None, PyStr("mongodb://db1/salt"), PyStr("db1:27017")},
     db : {None, PyStr("salt")},
     user : {None, PyStr("salt")},
     password : {None, PyStr("secret")},
     indexes : {PyBool(FALSE), PyBool(TRUE)}]

\* a host and a port, no indexes; a URI, with the indexes
HostOptions ==
    [host |-> PyStr("db1"), port |-> PyInt(27017), uri |-> None,
     db |-> PyStr("salt"), user |-> None, password |-> None,
     indexes |-> PyBool(FALSE)]

UriOptions ==
    [host |-> None, port |-> None, uri |-> PyStr("mongodb://db1/salt"),
     db |-> None, user |-> PyStr("salt"), password |-> PyStr("secret"),
     indexes |-> PyBool(TRUE)]

Idle == [op |-> "", arg |-> << >>, res |-> None, err |-> "",
         conn |-> "", parsed |-> FALSE, indexed |-> FALSE]

\* the record of a call that resolved its connection with outcome c
Called(op, arg, c, res, err) ==
    [op |-> op, arg |-> arg, res |-> res,
     err |-> IF c.err # "" THEN c.err ELSE err,
     conn |-> c.conn, parsed |-> c.parsed, indexed |-> c.indexed]

InitConn ==
    /\ modern \in BOOLEAN
    /\ config \in Options
    /\ saltReturns = << >> /\ jobs = << >> /\ events = << >>
    /\ indexes = {}
    /\ last = Idle
    /\ pc = << >> /\ sdata = << >>
    /\ dat = None /\ out = None

\* one call of _get_conn, as every handler makes it first
get_conn_call ==
    LET c == _get_conn(config, indexes)
    IN  /\ last' = Called("_get_conn", << >>, c, c.db, "")
        /\ indexes' = c.indexes
        /\ UNCHANGED << modern, config, saltReturns, jobs, events, pc, sdata, dat, out >>

NextConn == get_conn_call

SpecConn == InitConn /\ [][NextConn]_vars

\* -------------------------------------------------------------- the store

\* the key of a word
K(word) == << word >>

\* collection.replace_one(same jid and minion, doc, upsert=True): the insert of
\* a mutant that keeps one document for each job and minion
upsert_one(coll, name, doc) ==
    LET same(d) == /\ Get(d, K("jid")) = Get(doc, K("jid"))
                   /\ Get(d, K("minion")) = Get(doc, K("minion"))
        fresh == PyDict(Put(doc.d, K("_id"), ObjectId(name, Len(coll) + 1)))
    IN  IF \E i \in 1..Len(coll) : same(coll[i])
        THEN [i \in 1..Len(coll) |-> IF same(coll[i]) THEN fresh ELSE coll[i]]
        ELSE Append(coll, fresh)

\* collection.insert_one(doc), collection.insert(doc): the document, given the
\* store's identity field, is added after the documents of the collection
insert_one(coll, name, doc) ==
    Append(coll, PyDict(Put(doc.d, K("_id"), ObjectId(name, Len(coll) + 1))))

\* the projection {"_id": 0}
NoId(doc) == PyDict(Without(doc.d, K("_id")))

\* collection.find({key: val}, {"_id": 0}): the matching documents in the
\* collection's natural order, which is that of their insertion
find(coll, key, val) ==
    LET hits == SelectSeq(coll, LAMBDA doc : Has(doc, key) /\ Get(doc, key) = val)
    IN  [i \in 1..Len(hits) |-> NoId(hits[i])]

\* collection.find_one({key: val}, {"_id": 0}): the first match, or None
find_one(coll, key, val) ==
    IF find(coll, key, val) = << >> THEN None ELSE Head(find(coll, key, val))

\* collection.distinct(key): the values of the field, each once
RECURSIVE distinct(_, _)
distinct(coll, key) ==
    IF coll = << >> THEN << >>
    ELSE LET front == distinct(SubSeq(coll, 1, Len(coll) - 1), key)
             doc == coll[Len(coll)]
         IN  IF ~Has(doc, key) \/ \E i \in 1..Len(front) : front[i] = Get(doc, key)
             THEN front
             ELSE Append(front, Get(doc, key))

\* collection.inline_map_reduce(emit(this.jid, this), values[0]): one
\* {"_id": jid, "value": document} for each jid, the document the first emitted
inline_map_reduce(coll) ==
    LET jidOf(doc) == Get(doc, K("jid"))
        firsts == SelectSeq([i \in 1..Len(coll) |-> [i |-> i, doc |-> coll[i]]],
                            LAMBDA e : \A j \in 1..(e.i - 1) :
                                           jidOf(coll[j]) # jidOf(e.doc))
    IN  [i \in 1..Len(firsts) |->
            PyDict(<< Item(K("_id"), jidOf(firsts[i].doc)),
                      Item(K("value"), firsts[i].doc) >>)]

\* the dict key a value makes (ret[minion], ret[jid]): a str is the key of
\* its word, the ids of the model being words; a value that is no str stays a
\* key of its own, written as the empty symbol, which no str holds, and the
\* value (True and 1 are one key, as they are to a dict)
KeyOf(v) ==
    CASE v.t = "s" -> K(v.s)
      [] v.t = "none" -> << "", "None" >>
      [] v.t = "i" -> << "", ToString(v.i) >>
      [] v.t = "b" -> << "", IF v.b THEN "1" ELSE "0" >>
      [] OTHER -> << "", ToString(v) >>

\* salt.utils.jid.format_jid_instance(jid, job): the caller-facing job info
format_jid_instance(jid, job) == [t |-> "jobinfo", jid |-> jid, job |-> job]

\* salt.utils.jid.gen_jid(__opts__): a job id made from the clock
gen_jid == PyStr("20230101120000123456")

\* -------------------------------------------------------------- the handlers

\* The documents the three collections hold together, at most.
MaxDocs == 3

Room == Len(saltReturns) + Len(jobs) + Len(events) < MaxDocs

\* the document returner builds from ret
returner_sdata(ret) ==
    LET back == IF IsDict(Get(ret, K("return")))
                THEN _remove_dots(Get(ret, K("return")))
                ELSE Get(ret, K("return"))
        full_ret == IF IsDict(ret) THEN _remove_dots(ret) ELSE ret
        doc == << Item(K("minion"), Get(ret, K("id"))),
                  Item(K("jid"), Get(ret, K("jid"))),
                  Item(K("return"), back),
                  Item(K("fun"), Get(ret, K("fun"))),
                  Item(K("full_ret"), full_ret) >>
    IN  IF Has(ret, K("out"))
        THEN PyDict(Put(doc, K("out"), Get(ret, K("out"))))
        ELSE PyDict(doc)

\* returner(ret)
returner(ret) ==
    LET c == _get_conn(config, indexes)
    IN  /\ Room
        /\ last' = Called("returner", << ret >>, c, None, "")
        /\ indexes' = c.indexes
        /\ saltReturns' = IF c.err # "" THEN saltReturns
                          ELSE insert_one(saltReturns, "saltReturns",
                                          returner_sdata(ret))
        /\ UNCHANGED << modern, config, jobs, events, pc, sdata, dat, out >>

\* save_load(jid, load)
save_load(jid, load) ==
    LET c == _get_conn(config, indexes)
        to_save == _safe_copy(load)
    IN  /\ Room
        /\ last' = Called("save_load", << jid, load >>, c, None, "")
        /\ indexes' = c.indexes
        /\ jobs' = IF c.err # "" THEN jobs
                   ELSE insert_one(jobs, "jobs", to_save)
        /\ UNCHANGED << modern, config, saltReturns, events, pc, sdata, dat, out >>

\* save_minions of a mutant that stores the minions of the job
save_minions_stored(jid, minions) ==
    /\ Room
    /\ last' = [Idle EXCEPT !.op = "save_minions", !.arg = << jid, minions >>]
    /\ jobs' = insert_one(jobs, "jobs",
                          PyDict(<< Item(K("jid"), jid),
                                    Item(K("minions"), minions) >>))
    /\ UNCHANGED << modern, config, saltReturns, events, indexes, pc, sdata, dat, out >>

\* save_minions(jid, minions): nothing
save_minions(jid, minions) ==
    /\ last' = [Idle EXCEPT !.op = "save_minions", !.arg = << jid, minions >>]
    /\ UNCHANGED << modern, config, saltReturns, jobs, events, indexes, pc, sdata, dat, out >>

\* what get_load(jid) returns from the jobs collection
get_load_result(coll, jid) == find_one(coll, K("jid"), jid)

\* get_load(jid)
get_load(jid) ==
    LET c == _get_conn(config, indexes)
    IN  /\ last' = Called("get_load", << jid >>, c,
                          IF c.err # "" THEN None ELSE get_load_result(jobs, jid), "")
        /\ indexes' = c.indexes
        /\ UNCHANGED << modern, config, saltReturns, jobs, events, pc, sdata, dat, out >>

\* get_jid of a mutant that hands out the return in place of the full return
get_jid_result_return(coll, jid) ==
    LET rdata == find(coll, K("jid"), jid)
        ret[n \in 0..Len(rdata)] ==
            IF n = 0 THEN << >>
            ELSE Put(ret[n - 1], KeyOf(Get(rdata[n], K("minion"))),
                     Get(rdata[n], K("return")))
    IN  PyDict(ret[Len(rdata)])

\* get_jid of a mutant that reads the results of every job
get_jid_result_unfiltered(coll, jid) ==
    LET ret[n \in 0..Len(coll)] ==
            IF n = 0 THEN << >>
            ELSE Put(ret[n - 1], KeyOf(Get(coll[n], K("minion"))),
                     Get(coll[n], K("full_ret")))
    IN  PyDict(ret[Len(coll)])

\* what get_jid(jid) returns from the results collection
get_jid_result(coll, jid) ==
    LET rdata == find(coll, K("jid"), jid)
        ret[n \in 0..Len(rdata)] ==
            IF n = 0 THEN << >>
            ELSE Put(ret[n - 1], KeyOf(Get(rdata[n], K("minion"))),
                     Get(rdata[n], K("full_ret")))
    IN  PyDict(ret[Len(rdata)])

\* get_jid(jid)
get_jid(jid) ==
    LET c == _get_conn(config, indexes)
    IN  /\ last' = Called("get_jid", << jid >>, c,
                          IF c.err # "" THEN None
                          ELSE get_jid_result(saltReturns, jid), "")
        /\ indexes' = c.indexes
        /\ UNCHANGED << modern, config, saltReturns, jobs, events, pc, sdata, dat, out >>

\* what get_fun(fun) returns from the results collection
get_fun_result(coll, fun) ==
    LET rdata == find_one(coll, K("fun"), fun)
    IN  IF rdata # None /\ rdata # PyDict(<< >>) THEN rdata ELSE PyDict(<< >>)

\* get_fun(fun)
get_fun(fun) ==
    LET c == _get_conn(config, indexes)
    IN  /\ last' = Called("get_fun", << fun >>, c,
                          IF c.err # "" THEN None
                          ELSE get_fun_result(saltReturns, fun), "")
        /\ indexes' = c.indexes
        /\ UNCHANGED << modern, config, saltReturns, jobs, events, pc, sdata, dat, out >>

\* get_minions()
get_minions ==
    LET c == _get_conn(config, indexes)
        name == PyList(distinct(saltReturns, K("minion")))
    IN  /\ last' = Called("get_minions", << >>, c,
                          IF c.err # "" THEN None ELSE PyList(<< name >>), "")
        /\ indexes' = c.indexes
        /\ UNCHANGED << modern, config, saltReturns, jobs, events, pc, sdata, dat, out >>

\* what get_jids() returns from the jobs collection
get_jids_result(coll) ==
    LET result == inline_map_reduce(coll)
        ret[n \in 0..Len(result)] ==
            IF n = 0 THEN << >>
            ELSE LET jid == Get(result[n], K("_id"))
                 IN  Put(ret[n - 1], KeyOf(jid),
                         format_jid_instance(jid, Get(result[n], K("value"))))
    IN  PyDict(ret[Len(result)])

\* get_jids()
get_jids ==
    LET c == _get_conn(config, indexes)
    IN  /\ last' = Called("get_jids", << >>, c,
                          IF c.err # "" THEN None ELSE get_jids_result(jobs), "")
        /\ indexes' = c.indexes
        /\ UNCHANGED << modern, config, saltReturns, jobs, events, pc, sdata, dat, out >>

\* prep_jid(passed_jid=passed_jid)
prep_jid(passed_jid) ==
    /\ last' = [Idle EXCEPT !.op = "prep_jid", !.arg = << passed_jid >>,
                            !.res = IF passed_jid # None THEN passed_jid
                                    ELSE gen_jid]
    /\ UNCHANGED << modern, config, saltReturns, jobs, events, indexes, pc, sdata, dat, out >>

\* event_return of a mutant that stores every event of the list
event_return_all(evts) ==
    LET c == _get_conn(config, indexes)
        RECURSIVE all(_, _)
        all(coll, es) ==
            IF es = << >> THEN coll
            ELSE all(IF IsDict(Head(es)) THEN insert_one(coll, "events", Head(es))
                     ELSE coll, Tail(es))
    IN  /\ Room
        /\ last' = Called("event_return", << evts >>, c, None, "")
        /\ indexes' = c.indexes
        /\ events' = IF c.err # "" THEN events
                     ELSE IF IsList(evts) THEN all(events, evts.l)
                     ELSE IF IsDict(evts) THEN insert_one(events, "events", evts)
                     ELSE events
        /\ UNCHANGED << modern, config, saltReturns, jobs, pc, sdata, dat, out >>

\* event_return(events)
event_return(evts) ==
    LET c == _get_conn(config, indexes)
        empty == c.err = "" /\ IsList(evts) /\ evts.l = << >>
        first == IF IsList(evts) /\ evts.l # << >> THEN evts.l[1] ELSE evts
    IN  /\ Room
        /\ last' = Called("event_return", << evts >>, c, None,
                          IF empty THEN "IndexError" ELSE "")
        /\ indexes' = c.indexes
        /\ events' = IF c.err = "" /\ ~empty /\ IsDict(first)
                     THEN insert_one(events, "events", first)
                     ELSE events
        /\ UNCHANGED << modern, config, saltReturns, jobs, pc, sdata, dat, out >>

\* -------------------------------------------------------------- the calls made

JIDs == {PyStr("J1"), PyStr("J2")}
\* a job id no call stores under
NoJob == PyStr("J0")
Minions == {PyStr("mA"), PyStr("mB")}
Funs == {PyStr("test.ping"), PyStr("cmd.run")}

\* a completion record: the keys every return carries, then more
Ret(id, jid, fun, return, more) ==
    PyDict(<< Item(K("id"), id), Item(K("jid"), jid), Item(K("fun"), fun),
              Item(K("return"), return) >> \o more)

DottedReturn ==
    PyDict(<< Item(<< "a", ".", "b" >>,
                   PyDict(<< Item(<< "c", ".", "d" >>, PyInt(1)) >>)) >>)

ListReturn ==
    PyDict(<< Item(K("k"),
                   PyList(<< PyDict(<< Item(<< "b", ".", "c" >>, PyInt(1)) >>) >>)) >>)

Rets ==
    { Ret(PyStr("mA"), PyStr("J1"), PyStr("test.ping"), PyBool(TRUE), << >>),
      Ret(PyStr("mB"), PyStr("J1"), PyStr("test.ping"), PyBool(TRUE), << >>),
      Ret(PyStr("mA"), PyStr("J2"), PyStr("test.ping"), DottedReturn, << >>),
      Ret(PyStr("mA"), PyStr("J1"), PyStr("cmd.run"), ListReturn, << >>),
      Ret(PyStr("mB"), PyStr("J1"), PyStr("cmd.run"), PyStr("ok"),
          << Item(K("out"), PyStr("txt")),
             Item(<< "x", ".", "y" >>, PyInt(1)),
             Item(<< "x", "-", "y" >>, PyInt(2)) >>) }

PlainLoad == << Item(K("fun"), PyStr("test.ping")), Item(K("arg"), PyList(<< >>)) >>

KeyedLoad ==
    << Item(<< "a", ".", "b", "%" >>,
            PyDict(<< Item(<< "$", "c" >>,
                           PyList(<< PyDict(<< Item(<< "d", "\\" >>, PyInt(1)) >>) >>)) >>)),
       Item(K("tgt"), PyTuple(<< PyDict(<< Item(<< "x", ".", "y" >>, PyInt(1)) >>) >>)) >>

\* save_load's arguments: a load without a jid, loads with the jid of the
\* call, a load with the jid of another job
Loads ==
    { << PyStr("J1"), PyDict(PlainLoad) >>,
      << PyStr("J1"), PyDict(<< Item(K("jid"), PyStr("J1")) >> \o PlainLoad) >>,
      << PyStr("J2"), PyDict(<< Item(K("jid"), PyStr("J2")) >> \o KeyedLoad) >>,
      << PyStr("J2"), PyDict(KeyedLoad) >>,
      << PyStr("J2"), PyDict(<< Item(K("jid"), PyStr("J1")) >> \o PlainLoad) >> }

TaggedEvent ==
    PyDict(<< Item(K("tag"), PyStr("salt/job/J1/ret/mA")),
              Item(K("data"), PyDict(<< Item(<< "a", ".", "b", "$" >>, PyInt(1)) >>)) >>)

OtherEvent == PyDict(<< Item(K("tag"), PyStr("salt/auth")) >>)

Events ==
    { PyList(<< TaggedEvent, OtherEvent >>), PyList(<< OtherEvent >>),
      TaggedEvent, PyList(<< >>), PyList(<< PyStr("salt/auth"), OtherEvent >>),
      PyTuple(<< OtherEvent >>), PyStr("salt/auth") }

\* the configurations of the calls: a host, a URI with the indexes asked for,
\* both a host and a URI
Configs == {HostOptions, UriOptions, [UriOptions EXCEPT !.host = PyStr("db1")]}

Init ==
    /\ modern \in BOOLEAN
    /\ config \in Configs
    /\ saltReturns = << >> /\ jobs = << >> /\ events = << >>
    /\ indexes = {}
    /\ last = Idle
    /\ pc = << >> /\ sdata = << >>
    /\ dat = None /\ out = None

Next ==
    \/ \E ret \in Rets : returner(ret)
    \/ \E call \in Loads : save_load(call[1], call[2])
    \/ \E jid \in JIDs : save_minions(jid, PyList(<< PyStr("mA") >>))
    \/ \E jid \in JIDs \cup {NoJob} : get_load(jid)
    \/ \E jid \in JIDs \cup {NoJob} : get_jid(jid)
    \/ \E fun \in Funs : get_fun(fun)
    \/ get_minions
    \/ get_jids
    \/ \E passed_jid \in {None, PyStr("J1")} : prep_jid(passed_jid)
    \/ \E evts \in Events : event_return(evts)

Spec == Init /\ [][Next]_vars

\* -------------------------------------------------------------- returner, concurrently

\* The returner calls in flight at once, each of a process of its own.
NCalls == 3

Callers == 1..NCalls

\* the returns of the concurrent calls: two of one job and minion, one of another
ConcRets ==
    { Ret(PyStr("mA"), PyStr("J1"), PyStr("test.ping"), PyBool(TRUE), << >>),
      Ret(PyStr("mA"), PyStr("J1"), PyStr("cmd.run"), ListReturn, << >>),
      Ret(PyStr("mB"), PyStr("J1"), PyStr("test.ping"), PyBool(TRUE), << >>) }

InitConc ==
    /\ modern \in BOOLEAN
    /\ config \in Configs
    /\ saltReturns = << >> /\ jobs = << >> /\ events = << >>
    /\ indexes = {}
    /\ last = Idle
    /\ pc = [w \in Callers |-> "called"]
    /\ sdata = [w \in Callers |-> None]
    /\ dat = None /\ out = None

\* returner(ret) of caller w, to the return of _get_conn
returner_conn(w, ret) ==
    LET c == _get_conn(config, indexes)
    IN  /\ pc[w] = "called"
        /\ indexes' = c.indexes
        /\ pc' = [pc EXCEPT ![w] = IF c.err # "" THEN "raised" ELSE "connected"]
        /\ sdata' = [sdata EXCEPT ![w] = IF c.err # "" THEN None ELSE ret]
        /\ UNCHANGED << modern, config, saltReturns, jobs, events, last, dat, out >>

\* returner(ret) of caller w, to its sdata
returner_build(w) ==
    /\ pc[w] = "connected"
    /\ sdata' = [sdata EXCEPT ![w] = returner_sdata(sdata[w])]
    /\ pc' = [pc EXCEPT ![w] = "built"]
    /\ UNCHANGED << modern, config, saltReturns, jobs, events, indexes, last, dat, out >>

\* returner(ret) of caller w: the insert, which the store makes atomic
returner_insert(w) ==
    /\ pc[w] = "built"
    /\ saltReturns' = insert_one(saltReturns, "saltReturns", sdata[w])
    /\ pc' = [pc EXCEPT ![w] = "returned"]
    /\ UNCHANGED << modern, config, jobs, events, indexes, last, sdata, dat, out >>

NextConc ==
    \E w \in Callers :
        \/ \E ret \in ConcRets : returner_conn(w, ret)
        \/ returner_build(w)
        \/ returner_insert(w)

SpecConc == InitConc /\ [][NextConc]_vars

\* -------------------------------------------------------------- _safe_copy alone

\* The longest key, in symbols, of the documents given to _safe_copy.
MaxKeyLen == 2

KeySyms == {"%", "\\", "$", ".", "2", "e", "a"}

RECURSIVE KeysOfLen(_)
KeysOfLen(n) ==
    IF n = 0 THEN {<< >>}
    ELSE {Append(k, c) : k \in KeysOfLen(n - 1), c \in KeySyms}

Keys == UNION {KeysOfLen(n) : n \in 1..MaxKeyLen}

\* keys that look like escape sequences, and the characters escaped
TrickyKeys ==
    { << "%", "2", "e" >>, << "%", "2", "5" >>, << "%", "5", "c" >>,
      << "%", "2", "4" >>, << "." >>, << "%" >>, << "$" >>, << "\\" >> }

SafeCopyInputs ==
    {PyDict(<< Item(k, PyInt(1)) >>) : k \in Keys \cup TrickyKeys}
    \cup {PyDict(<< Item(k1, PyInt(1)), Item(k2, PyInt(2)) >>) :
             k1 \in TrickyKeys, k2 \in Keys \ TrickyKeys}
    \cup {PyDict(<< Item(k1, PyInt(1)), Item(k2, PyInt(2)) >>) :
             k1 \in {<< "." >>}, k2 \in TrickyKeys \ {<< "." >>}}
    \cup {PyDict(<< Item(k1, PyDict(<< Item(k2, PyInt(1)) >>)) >>) :
             k1 \in TrickyKeys, k2 \in Keys}
    \cup {PyDict(<< Item(k1, PyList(<< PyDict(<< Item(k2, PyInt(1)) >>), PyInt(2) >>)) >>) :
             k1 \in TrickyKeys, k2 \in Keys}
    \cup {PyDict(<< Item(k1, PyTuple(<< PyDict(<< Item(k2, PyInt(1)) >>), PyInt(2) >>)) >>) :
             k1 \in {<< "a" >>, << "." >>}, k2 \in Keys}
    \cup {PyList(<< PyDict(<< Item(k, PyInt(1)) >>) >>) : k \in TrickyKeys}
    \cup {PyInt(1), PyStr("x"), None}

InitSafeCopy ==
    /\ modern = TRUE
    /\ config = HostOptions
    /\ saltReturns = << >> /\ jobs = << >> /\ events = << >>
    /\ indexes = {}
    /\ last = Idle
    /\ pc = << >> /\ sdata = << >>
    /\ dat \in SafeCopyInputs
    /\ out = None

\* one call of _safe_copy on dat
safe_copy_call ==
    /\ last.op = ""
    /\ out' = _safe_copy(dat)
    /\ last' = [Idle EXCEPT !.op = "_safe_copy"]
    /\ UNCHANGED << modern, config, saltReturns, jobs, events, indexes, pc, sdata, dat >>

NextSafeCopy == safe_copy_call

SpecSafeCopy == InitSafeCopy /\ [][NextSafeCopy]_vars

\* -------------------------------------------------------------- properties

\* a == b of Python: dicts are equal whatever the order of their items
RECURSIVE Canon(_)
Canon(v) ==
    IF IsDict(v)
    THEN [t |-> "d",
          m |-> [key \in {v.d[i].k : i \in 1..Len(v.d)} |-> Canon(Get(v, key))]]
    ELSE IF IsListOrTuple(v)
    THEN [t |-> v.t, l |-> [i \in 1..Len(v.l) |-> Canon(v.l[i])]]
    ELSE v

PyEq(a, b) == Canon(a) = Canon(b)

\* the keys of a value at every depth, through dicts, lists and tuples
RECURSIVE AllKeys(_)
AllKeys(v) ==
    IF IsDict(v)
    THEN {v.d[i].k : i \in 1..Len(v.d)}
         \cup UNION {AllKeys(v.d[i].v) : i \in 1..Len(v.d)}
    ELSE IF IsListOrTuple(v)
    THEN UNION {AllKeys(v.l[i]) : i \in 1..Len(v.l)}
    ELSE {}

\* the keys of a value through dicts alone: those _remove_dots rewrites
RECURSIVE DictKeys(_)
DictKeys(v) ==
    IF IsDict(v)
    THEN {v.d[i].k : i \in 1..Len(v.d)}
         \cup UNION {DictKeys(v.d[i].v) : i \in 1..Len(v.d)}
    ELSE {}

HasSym(key, syms) == \E i \in 1..Len(key) : key[i] \in syms

\* the inverse of the escaping: %25, %5c, %24, %2e read back from the left
RECURSIVE unescape_key(_)
unescape_key(k) ==
    IF k = << >> THEN << >>
    ELSE IF Head(k) = "%" /\ Len(k) >= 3
            /\ << k[2], k[3] >> \in {<< "2", "5" >>, << "5", "c" >>,
                                     << "2", "4" >>, << "2", "e" >>}
    THEN << CASE << k[2], k[3] >> = << "2", "5" >> -> "%"
              [] << k[2], k[3] >> = << "5", "c" >> -> "\\"
              [] << k[2], k[3] >> = << "2", "4" >> -> "$"
              [] OTHER -> "." >> \o unescape_key(SubSeq(k, 4, Len(k)))
    ELSE << Head(k) >> \o unescape_key(Tail(k))

RECURSIVE unescape(_)
unescape(v) ==
    IF IsDict(v)
    THEN LET ret[n \in 0..Len(v.d)] ==
                 IF n = 0 THEN << >>
                 ELSE Put(ret[n - 1], unescape_key(v.d[n].k), unescape(v.d[n].v))
         IN  PyDict(ret[Len(v.d)])
    ELSE IF IsListOrTuple(v)
    THEN [t |-> v.t, l |-> [i \in 1..Len(v.l) |-> unescape(v.l[i])]]
    ELSE v

\* a value with its tuples read as lists
RECURSIVE Listed(_)
Listed(v) ==
    IF IsDict(v)
    THEN PyDict([i \in 1..Len(v.d) |-> Item(v.d[i].k, Listed(v.d[i].v))])
    ELSE IF IsListOrTuple(v)
    THEN PyList([i \in 1..Len(v.l) |-> Listed(v.l[i])])
    ELSE v

\* as many keys in b as in a, at every level
RECURSIVE SameKeyCounts(_, _)
SameKeyCounts(a, b) ==
    IF IsDict(a)
    THEN /\ IsDict(b) /\ Len(b.d) = Len(a.d)
         /\ \A i \in 1..Len(a.d) : SameKeyCounts(a.d[i].v, b.d[i].v)
    ELSE IF IsListOrTuple(a)
    THEN /\ IsListOrTuple(b) /\ Len(b.l) = Len(a.l)
         /\ \A i \in 1..Len(a.l) : SameKeyCounts(a.l[i], b.l[i])
    ELSE TRUE

\* the last call was op and raised nothing
Returned(op) == last.op = op /\ last.err = ""

\* ---- C1

\* C1, as claimed: once returner has stored the return R of minion W for job J,
\* get_jid(J) has the key W and under it a value equal to R.
C1_FullRecordReadBack ==
    Returned("returner") =>
        LET R == last.arg[1]
            got == get_jid_result(saltReturns, Get(R, K("jid")))
            W == KeyOf(Get(R, K("id")))
        IN  Has(got, W) /\ PyEq(Get(got, W), R)

\* C1, amended: once returner has stored the return R of minion W for job J,
\* get_jid(J) has the key W and under it _remove_dots(R), which is R with the
\* dots of the keys of its mappings made dashes; it equals R when no key of R
\* or of a mapping nested in its mappings holds a dot.
C1_FlattenedRecordReadBack ==
    Returned("returner") =>
        LET R == last.arg[1]
            got == get_jid_result(saltReturns, Get(R, K("jid")))
            W == KeyOf(Get(R, K("id")))
        IN  /\ Has(got, W)
            /\ PyEq(Get(got, W), _remove_dots(R))
            /\ (\A key \in DictKeys(R) : ~HasSym(key, {"."})) => PyEq(Get(got, W), R)
            /\ \A key \in DictKeys(Get(got, W)) : ~HasSym(key, {"."})

\* a return with dotted keys was stored after another of the same job and minion
C1_Witness ==
    /\ Returned("returner")
    /\ Has(last.arg[1], << "x", ".", "y" >>)
    /\ Len(find(saltReturns, K("minion"), Get(last.arg[1], K("id")))) >= 2
    /\ Len(find(saltReturns, K("jid"), Get(last.arg[1], K("jid")))) >= 2

\* ---- C2

\* C2: once save_load(J, L) has stored L in a jobs collection with no other
\* document of job J, get_load(J) returns the sanitized L with the jid J in it
\* and without _id, not None.
C2_LoadReadBack ==
    (/\ Returned("save_load")
     /\ \A i \in 1..(Len(jobs) - 1) : Get(jobs[i], K("jid")) # last.arg[1])
    => LET J == last.arg[1]
           L == last.arg[2]
           got == get_load_result(jobs, J)
       IN  /\ got # None
           /\ PyEq(got, PyDict(Put(_safe_copy(L).d, K("jid"), J)))
           /\ ~Has(got, K("_id"))

\* ---- C3

\* C3: when the configuration has both uri and host, _get_conn raises
\* SaltConfigurationError, whatever the other options and the driver tier,
\* having parsed no URI, built no client and asked for no index.
C3_UriAndHostExclusive ==
    (last.op = "_get_conn" /\ Truthy(config.uri) /\ Truthy(config.host)) =>
        /\ last.err = "SaltConfigurationError"
        /\ last.conn = "" /\ ~last.parsed /\ ~last.indexed
        /\ indexes = {}

\* _get_conn ran on the legacy tier with a URI, a host and the indexes asked for
C3_Witness ==
    /\ last.op = "_get_conn" /\ ~modern
    /\ Truthy(config.uri) /\ Truthy(config.host)
    /\ config.indexes = PyBool(TRUE)
    /\ last.err = "SaltConfigurationError"

\* ---- C4

\* C4, as claimed: unescape(_safe_copy(M)) == M for every M, and no two keys
\* of a mapping collapse.
C4_RoundTrip ==
    last.op = "_safe_copy" =>
        PyEq(unescape(out), dat) /\ SameKeyCounts(dat, out)

\* C4, amended: unescape(_safe_copy(M)) equals M with its tuples read as
\* lists (M itself when it holds no tuple), and every mapping of the copy has
\* as many keys as the mapping it copies.
C4_RoundTripListed ==
    last.op = "_safe_copy" =>
        /\ PyEq(unescape(out), Listed(dat))
        /\ SameKeyCounts(dat, out)
        /\ (dat = Listed(dat)) => PyEq(unescape(out), dat)

\* _safe_copy ran on a mapping that holds "." and "%2e", the escape of "."
C4_Witness ==
    /\ last.op = "_safe_copy"
    /\ dat = PyDict(<< Item(<< "." >>, PyInt(1)),
                       Item(<< "%", "2", "e" >>, PyInt(2)) >>)
    /\ out = PyDict(<< Item(<< "%", "2", "e" >>, PyInt(1)),
                       Item(<< "%", "2", "5", "2", "e" >>, PyInt(2)) >>)

\* ---- C5

\* C5, as claimed: no key of a document of the jobs collection, at any depth,
\* holds "%", a backslash, "$" or ".".
C5_NoForbiddenCharacter ==
    \A i \in 1..Len(jobs) : \A key \in AllKeys(jobs[i]) :
        ~HasSym(key, {"%", "\\", "$", "."})

\* "%" only as the first character of %25, %5c, %24 or %2e
OnlyEscapes(key) ==
    \A i \in 1..Len(key) :
        key[i] = "%" =>
            /\ i + 2 <= Len(key)
            /\ << key[i + 1], key[i + 2] >> \in
                   {<< "2", "5" >>, << "5", "c" >>, << "2", "4" >>, << "2", "e" >>}

\* C5, amended: no key of a document of the jobs collection, at any depth,
\* holds a backslash, "$" or "."; it holds "%" only as the first character of
\* one of the escapes %25, %5c, %24, %2e.
C5_NoForbiddenButPercent ==
    \A i \in 1..Len(jobs) : \A key \in AllKeys(jobs[i]) :
        ~HasSym(key, {"\\", "$", "."}) /\ OnlyEscapes(key)

\* save_load stored a load whose keys, some inside a list, held all four
C5_Witness ==
    /\ Returned("save_load")
    /\ \E key \in AllKeys(last.arg[2]) : HasSym(key, {"\\"})
    /\ << "a", "%", "2", "e", "b", "%", "2", "5" >> \in AllKeys(jobs[Len(jobs)])
    /\ << "d", "%", "5", "c" >> \in AllKeys(jobs[Len(jobs)])
    /\ << "%", "2", "4", "c" >> \in AllKeys(jobs[Len(jobs)])

\* ---- C6

Done == {w \in Callers : pc[w] = "returned"}

\* one document for each call that returned, and no other
OnePerCall ==
    /\ Len(saltReturns) = Cardinality(Done)
    /\ \A w \in Done :
           Cardinality({i \in 1..Len(saltReturns) : NoId(saltReturns[i]) = sdata[w]})
               = Cardinality({v \in Done : sdata[v] = sdata[w]})
    /\ \A i, j \in 1..Len(saltReturns) :
           Get(saltReturns[i], K("_id")) = Get(saltReturns[j], K("_id")) => i = j

\* a step adds at most one document and leaves those there as they are
AppendOnly ==
    /\ Len(saltReturns') \in {Len(saltReturns), Len(saltReturns) + 1}
    /\ SubSeq(saltReturns', 1, Len(saltReturns)) = saltReturns

\* C6: in any interleaving of returner calls, each call that returns has added
\* one document to the results collection and changed or removed none, so the
\* collection holds one document for each such call.
C6_InsertOnly == []OnePerCall /\ [][AppendOnly]_vars

\* every call returned, two of them with the same job and minion
C6_Witness ==
    /\ Done = Callers
    /\ Len(saltReturns) = NCalls
    /\ \E v, w \in Callers :
           /\ v # w
           /\ Get(sdata[v], K("minion")) = Get(sdata[w], K("minion"))
           /\ Get(sdata[v], K("jid")) = Get(sdata[w], K("jid"))

\* ---- C7

\* the result documents of job jid
OfJob(jid) ==
    {i \in 1..Len(saltReturns) : Get(saltReturns[i], K("jid")) = jid}

\* C7: whatever the store holds, get_jid(J) is the mapping whose keys are the
\* minions with a result document of job J, each to the full_ret of one of
\* that minion's documents of J; it is empty when J has none; and a get_jid
\* call whose connection resolved raised nothing and returned that mapping.
C7_GetJid ==
    /\ \A jid \in JIDs \cup {NoJob} :
           LET got == get_jid_result(saltReturns, jid)
           IN  /\ IsDict(got)
               /\ {got.d[n].k : n \in 1..Len(got.d)}
                      = {KeyOf(Get(saltReturns[i], K("minion"))) : i \in OfJob(jid)}
               /\ \A n \in 1..Len(got.d) :
                      \E i \in OfJob(jid) :
                          /\ KeyOf(Get(saltReturns[i], K("minion"))) = got.d[n].k
                          /\ Get(saltReturns[i], K("full_ret")) = got.d[n].v
               /\ OfJob(jid) = {} => got = PyDict(<< >>)
    /\ (last.op = "get_jid" /\ _get_conn(config, indexes).err = "") =>
           /\ last.err = ""
           /\ last.res = get_jid_result(saltReturns, last.arg[1])

\* get_jid returned the results of two minions while another job had one
C7_Witness ==
    /\ Returned("get_jid")
    /\ Len(last.res.d) = 2
    /\ \E i \in 1..Len(saltReturns) : Get(saltReturns[i], K("jid")) # last.arg[1]

\* ---- C8

\* the value event_return is left with when a sequence of the kinds in seqs
\* gives its first element, and whether the call stores it
EventFirst(e, seqs) ==
    IF e.t \in seqs /\ e.l # << >> THEN e.l[1] ELSE e

EventReturnOf(seqs) ==
    last'.op = "event_return" =>
        LET first == EventFirst(last'.arg[1], seqs)
            stored == last'.err = "" /\ IsDict(first)
        IN  /\ stored =>
                  /\ Len(events') = Len(events) + 1
                  /\ SubSeq(events', 1, Len(events)) = events
                  /\ NoId(events'[Len(events')]) = first
            /\ ~stored => events' = events
            /\ UNCHANGED << saltReturns, jobs >>

\* C8 as stated: event_return on a non-empty sequence, a list or a tuple,
\* whose first element is a document adds that element, as it is, to the
\* events collection and nothing else; on a document it adds the document as
\* it is; on anything else it adds nothing; in every case it leaves the
\* results and jobs collections alone.  (Violated: a tuple is no list to
\* event_return, so the document in a one-element tuple is not stored.)
C8_EventReturnSequence == [][EventReturnOf({"l", "tu"})]_vars

\* C8: event_return on a non-empty list whose first element is a document adds
\* that element, as it is, to the events collection and nothing else; on a
\* document it adds the document as it is; on anything else, a tuple of
\* documents included, and in a call that raises, it adds nothing; in every
\* case, the calls that raise included, it leaves the results and jobs
\* collections alone.
C8_EventReturn == [][EventReturnOf({"l"})]_vars

\* event_return stored the first of two events, its dotted key as it was
C8_Witness ==
    /\ Returned("event_return")
    /\ IsList(last.arg[1]) /\ Len(last.arg[1].l) = 2
    /\ Len(events) = 1
    /\ << "a", ".", "b", "$" >> \in AllKeys(events[1])

\* ---- C9

ReadOps == {"get_load", "get_jid", "get_fun", "get_minions", "get_jids",
            "save_minions"}

\* C9: get_load, get_jid, get_fun, get_minions, get_jids and save_minions
\* leave the documents of the three collections as they are.
C9_ReadsChangeNothing ==
    [][last'.op \in ReadOps => UNCHANGED << saltReturns, jobs, events >>]_vars

\* save_minions was called on a store that holds results and a load
C9_Witness ==
    /\ last.op = "save_minions"
    /\ Len(saltReturns) >= 1 /\ Len(jobs) >= 1

\* ---- C10

\* C10: no key of the return or of the full_ret of a result document, at any
\* depth, holds a dot.
C10_NoDotAnywhere ==
    \A i \in 1..Len(saltReturns) :
        \A key \in AllKeys(Get(saltReturns[i], K("return")))
                   \cup AllKeys(Get(saltReturns[i], K("full_ret"))) :
            ~HasSym(key, {"."})

====
